---- MODULE Spec2Model ----
(***************************************************************************)
(* Model of internal/scheduler/scheduler.go: the scheduler's control loop  *)
(* (schedulerService.loop), its ticker, the BatchProcessor call it makes,  *)
(* and the callers of Start(), Stop() and IsRunning(); and of              *)
(* internal/handler/default.go: one ProcessBatch call of the message       *)
(* service with its worker goroutines; of the messages table as            *)
(* internal/repository/gorm/message/repo.go reads and writes it; and of    *)
(* the configuration's way from the environment (internal/config) through  *)
(* main into the two constructors; and of the query parameters of the      *)
(* sent-messages listing (internal/server/server.go).                      *)
(*                                                                         *)
(* Spec, FairSpec and LiveSpec are the scheduler, which sees a             *)
(* ProcessBatch call only as its start and its return value; PoolSpec is   *)
(* the inside of a ProcessBatch call. StoreSpec is the messages table      *)
(* shared by process instances that each run their batches one after the   *)
(* other. ConfigSpec is the start of a process under any environment.      *)
(*                                                                         *)
(* Channels are unbuffered (make(chan controlMsg), make(chan bool)): a     *)
(* send and its receive are one joint step of the two goroutines.          *)
(* ticker.C is the one-slot buffered channel of time.Ticker.               *)
(* Goroutines blocked in a send on s.ctrl wait in the channel's queue and  *)
(* are received from in the order they blocked.                            *)
(* Time is abstracted: time.After(controlTimeout) may fire at any moment   *)
(* while its select is blocked; the fair specification adds that it does   *)
(* fire eventually.                                                        *)
(***************************************************************************)
EXTENDS Integers, FiniteSets, Sequences

\* Number of goroutines calling Start/Stop/IsRunning.
NumCallers == 2

\* Largest number of messages GetPending returns.
MaxMessages == 3

\* Largest maxWorkers given to NewMessageService (0: not configured).
MaxWorkersConfig == 2

\* Number of process instances sharing the messages table.
NumFetchers == 2

\* Number of rows of the messages table.
NumRows == 3

\* The limit given to GetPending (s.batchSize).
FetchLimit == 2

\* Largest number an environment variable is set to (the smallest is -1).
MaxEnvNumber == 1

\* How far above the listing's largest page size a requested number goes.
QueryExcess == 1

\* Largest page number requested.
MaxPage == 2

\* Largest number of times one message is delivered by the provider.
MaxDeliveries == 2

Callers == 1..NumCallers

\* controlOp (scheduler.go:41-45)
opStart  == "opStart"
opStop   == "opStop"
opStatus == "opStatus"
Ops == {opStart, opStop, opStatus}

\* The nil channel (var pendingStop chan bool) and "no channel held".
NoChan == 0

\* Identities of the reply channels made by the callers (resp := make(chan bool)).
\* A channel's identity is reused once nothing refers to it any more.
Chans == 1..(NumCallers + 2)

\* The zero controlMsg: the loop holds no message.
NoMsg == [op |-> "none", resp |-> NoChan, val |-> FALSE]

\* No tick buffered in ticker.C.
NoTick == [present |-> FALSE, running |-> FALSE, batch |-> FALSE]

VARIABLES
    \* ---- the loop goroutine (scheduler.go:151-236)
    lpc,          \* "select" | "reply" | "call" | "ackStop"
    msg,          \* the controlMsg being answered, with the value to send
    running,      \* scheduler.go:157
    inBatch,      \* scheduler.go:158
    pendingStop,  \* scheduler.go:162
    \* ---- the ticker and the BatchProcessor
    tick,         \* ticker.C: at most one buffered tick, with the state it fired in
    active,       \* ProcessBatch calls started by the loop and not yet returned
    lastBatch,    \* what the last ProcessBatch call returned: "nil" | "err";
                  \*   "none" before the first return and while a call executes
    \* ---- the callers
    pc,           \* pc[c]: "idle" | "send" | "wait"
    op,           \* op[c]: the command of c's current or last call
    ch,           \* ch[c]: the reply channel of c's call in progress
    result,       \* result[c]: what c's last call returned
    mid,          \* mid[c]: "no" | "open" | "closed": c's Stop() was issued during
                  \*   a batch, which is still executing / has returned since
    hist,         \* hist[c]: what c's IsRunning() in progress follows
    lastCmd,      \* the caller whose Start or Stop the loop applied last
    sendq,        \* s.ctrl: the callers blocked in their send, first come first
    arrived,      \* the callers blocked in their send, in the order they began it
    prevRunning,  \* running as it was before the command the loop is answering
    \* ---- the message service (default.go:63-72) and its ProcessBatch call
    maxWorkers,   \* s.maxWorkers
    bpc,          \* "idle" | "fetch" | "workers" | "done": where the call is
    messages,     \* messages[i]: the i-th fetched *domain.Message (Status,
                  \*   MessageID, RawResponse) and how its Send ended
    workerCount,  \* default.go:136
    widx,         \* widx[w]: the loop variable i of the w-th worker goroutine
    wpc,          \* wpc[w]: where worker w is: "loop" | "checked" | "send" |
                  \*   "update" | "cache"
    wexp,         \* wexp[w]: the timer of w's msgCtx (perMessageTimeout) has fired;
                  \*   once Send has returned: msgCtx was done when it returned
    wexit,        \* the worker goroutines that have returned (wg.Done)
    calls,        \* calls[i]: how many times processMessage ran on messages[i]
    cancelled,    \* ctx.Err() != nil
    fetchErr,     \* GetPending returned an error
    errs,         \* the kinds of failure met in processMessage so far
    ret,          \* what ProcessBatch returned: "none" | "nil" | "err"
    rows,         \* rows[i]: the database row of messages[i]
    cache,        \* the cache: the records written by cache.Set
    \* ---- the messages table and the process instances using it
    table,        \* table[i]: the status column of row i, i in created_at order
    rowLock,      \* rowLock[i]: the instance whose statement holds i's row lock
    spc,          \* spc[f]: "idle" | "select" | "batch": where instance f is
    models,       \* models[f]: the rows f's SELECT in progress has read
    fetched,      \* fetched[f]: the rows GetPending returned to f and f has
                  \*   not yet called UpdateStatus for
    sent,         \* sent[i]: how many Send calls for row i the provider accepted
    passed,       \* passed[f]: the rows that were SUCCESS when f's last SELECT ran
    \* ---- the configuration of a starting process
    env,          \* env[k]: the environment variable k
    cfg,          \* cfg[k]: the field of config.Config read from k
    used,         \* used[k]: the field of the service constructed from cfg[k]
    cpc,          \* "env" | "cfg" | "svc" | "done": how far the start has come
    \* ---- a GET /messages/sent request
    query,        \* query.page, query.limit: the parameters of the URL
    listed,       \* listed.page, listed.limit: what GetSent was called with
    gpc           \* "idle" | "request" | "done"

schedulerVars ==
    <<lpc, msg, running, inBatch, pendingStop, tick, active, lastBatch,
      pc, op, ch, result, mid, hist, lastCmd, sendq, arrived, prevRunning>>

poolVars ==
    <<maxWorkers, bpc, messages, workerCount, widx, wpc, wexp, wexit, calls,
      cancelled, fetchErr, errs, ret, rows, cache>>

storeVars == <<table, rowLock, spc, models, fetched, sent, passed>>

configVars == <<env, cfg, used, cpc>>

listVars == <<query, listed, gpc>>

vars == <<schedulerVars, poolVars, storeVars, configVars, listVars>>

\* What the scheduler's steps leave alone, what the steps of a ProcessBatch
\* call leave alone, and so on.
nonSchedulerVars == <<poolVars, storeVars, configVars, listVars>>
nonPoolVars      == <<schedulerVars, storeVars, configVars, listVars>>
nonStoreVars     == <<schedulerVars, poolVars, configVars, listVars>>
nonConfigVars    == <<schedulerVars, poolVars, storeVars, listVars>>
nonListVars      == <<schedulerVars, poolVars, storeVars, configVars>>

loopVars   == <<lpc, msg, running, inBatch, pendingStop, prevRunning>>
batchVars  == <<active, lastBatch>>
callerVars == <<pc, op, ch, result, mid, hist, sendq, arrived>>

Results == {"none", "nil", "errSend", "errAck", "true", "false"}

\* domain/message: Status
StatusPending == "PENDING"
StatusSuccess == "SUCCESS"
StatusFailed  == "FAILED"

\* default.go:90: maxWorkers = 4
DefaultMaxWorkers == 4

\* The ways a processMessage call can fail: Send, UpdateStatus called with a
\* msgCtx that is already done ("ctx"), UpdateStatus otherwise, cache.Set.
ErrKinds == {"send", "update", "ctx", "cache"}

\* cache.SentMessages
SentMessages == "sent_messages"

\* default.go:234: 24*time.Hour
CacheTTLHours == 24

\* The external identifiers the SMS provider assigns (parsed.MessageID).
ExternalIDs == {"X", "Y"}

\* The raw provider response (rawResp), when one was read.
RawResponse == "raw"

\* Message.Status, Message.MessageID, Message.RawResponse.
Fields == [status : {StatusPending, StatusSuccess, StatusFailed},
           id : ExternalIDs \cup {""},
           raw : {RawResponse, ""}]

\* How a Send call can end: with an identifier, or with an error: after a
\* response was read ("http"), without one ("net"), because the timer of
\* msgCtx fired ("timeout") or because the parent ctx was done ("cancel").
SendEnds == {"ok", "http", "net", "timeout", "cancel"}

\* The process instances, and "no instance".
Fetchers == 1..NumFetchers
NoFetcher == 0

\* The rows of the messages table, numbered in the order of created_at.
Rows == 1..NumRows

\* The environment variables of the scheduler and the message service.
Settings == {"SCHEDULER_INTERVAL", "SCHEDULER_BATCH_TIMEOUT", "MESSAGE_BATCH_SIZE",
             "MESSAGE_MAX_WORKERS", "MESSAGE_PER_MESSAGE_TIMEOUT"}

\* What an environment variable can hold: nothing, text that strconv.Atoi or
\* time.ParseDuration rejects, or a number (durations in seconds).
Unset == [kind |-> "unset", n |-> 0]
Unparseable == [kind |-> "bad", n |-> 0]
Parsed(n) == [kind |-> "num", n |-> n]
EnvValues == {Unset, Unparseable} \cup {Parsed(n) : n \in -1..MaxEnvNumber}

\* scheduler.go:27: DefaultInterval = 2 * time.Minute, in seconds
DefaultInterval == 120

\* scheduler.go:31: DefaultBatchTimeout = 30 * time.Second
DefaultBatchTimeout == 30

\* default.go:87: batchSize = 100
DefaultBatchSize == 100

\* default.go:93: perMessageTimeout = 5 * time.Second
DefaultPerMessageTimeout == 5

\* config.go:86-92: the second argument of each getDuration and getInt call
EnvDefault ==
    [k \in Settings |->
        CASE k = "SCHEDULER_INTERVAL" -> 5
          [] k = "SCHEDULER_BATCH_TIMEOUT" -> 30
          [] k = "MESSAGE_BATCH_SIZE" -> 100
          [] k = "MESSAGE_MAX_WORKERS" -> 4
          [] k = "MESSAGE_PER_MESSAGE_TIMEOUT" -> 5]

\* The numbers a configuration field can hold.
ConfigNumbers == (-1..MaxEnvNumber) \cup {EnvDefault[k] : k \in Settings}
                 \cup {DefaultInterval, DefaultBatchTimeout, DefaultBatchSize,
                       DefaultMaxWorkers, DefaultPerMessageTimeout}

\* server.go:138: page := 1
DefaultPage == 1

\* server.go:139: limit := 20
DefaultLimit == 20

\* server.go:145: v <= 100
MaxLimit == 100

\* What r.URL.Query().Get gives for page and for limit: "" when the parameter
\* is missing, text strconv.Atoi rejects, or a number.
PageValues == {Unset, Unparseable} \cup {Parsed(n) : n \in -1..MaxPage}
LimitValues == {Unset, Unparseable} \cup {Parsed(n) : n \in -1..(MaxLimit + QueryExcess)}

TypeOK ==
    /\ lpc \in {"select", "reply", "call", "ackStop"}
    /\ msg \in [op : Ops \cup {"none"}, resp : Chans \cup {NoChan}, val : BOOLEAN]
    /\ running \in BOOLEAN
    /\ inBatch \in BOOLEAN
    /\ pendingStop \in Chans \cup {NoChan}
    /\ tick \in [present : BOOLEAN, running : BOOLEAN, batch : BOOLEAN]
    /\ active \in Nat
    /\ lastBatch \in {"none", "nil", "err"}
    /\ pc \in [Callers -> {"idle", "send", "wait"}]
    /\ op \in [Callers -> Ops \cup {"none"}]
    /\ ch \in [Callers -> Chans \cup {NoChan}]
    /\ result \in [Callers -> Results]
    /\ mid \in [Callers -> {"no", "open", "closed"}]
    /\ hist \in [Callers -> {"none", "start", "stop", "stopMid"}]
    /\ lastCmd \in Callers \cup {0}
    /\ sendq \in Seq(Callers)
    /\ arrived \in Seq(Callers)
    /\ prevRunning \in BOOLEAN
    /\ maxWorkers \in 1..(MaxWorkersConfig + DefaultMaxWorkers)
    /\ bpc \in {"idle", "fetch", "workers", "done"}
    /\ DOMAIN messages \subseteq 0..MaxMessages
    /\ \A i \in DOMAIN messages :
           /\ [status |-> messages[i].status, id |-> messages[i].id,
               raw |-> messages[i].raw] \in Fields
           /\ messages[i].why \in SendEnds \cup {"none"}
    /\ DOMAIN rows = DOMAIN messages
    /\ \A i \in DOMAIN rows : rows[i] \in Fields
    /\ DOMAIN wpc = DOMAIN widx
    /\ \A w \in DOMAIN wpc : wpc[w] \in {"loop", "checked", "send", "update", "cache"}
    /\ DOMAIN wexp = DOMAIN widx
    /\ \A w \in DOMAIN wexp : wexp[w] \in BOOLEAN
    /\ cache \subseteq [key : STRING, ttl : {CacheTTLHours}]
    /\ workerCount \in 0..MaxMessages
    /\ DOMAIN widx \subseteq 0..MaxMessages
    /\ \A w \in DOMAIN widx : widx[w] \in Nat
    /\ wexit \subseteq DOMAIN widx
    /\ DOMAIN calls = DOMAIN messages
    /\ \A i \in DOMAIN calls : calls[i] \in Nat
    /\ cancelled \in BOOLEAN
    /\ fetchErr \in BOOLEAN
    /\ errs \subseteq ErrKinds
    /\ ret \in {"none", "nil", "err"}
    /\ table \in [Rows -> {StatusPending, StatusSuccess, StatusFailed}]
    /\ rowLock \in [Rows -> Fetchers \cup {NoFetcher}]
    /\ spc \in [Fetchers -> {"idle", "select", "batch"}]
    /\ models \in [Fetchers -> SUBSET Rows]
    /\ fetched \in [Fetchers -> SUBSET Rows]
    /\ sent \in [Rows -> 0..MaxDeliveries]
    /\ passed \in [Fetchers -> SUBSET Rows]
    /\ env \in [Settings -> EnvValues]
    /\ cfg \in [Settings -> ConfigNumbers]
    /\ used \in [Settings -> ConfigNumbers]
    /\ cpc \in {"env", "cfg", "svc", "done"}
    /\ query \in [page : PageValues, limit : LimitValues]
    /\ listed \in [page : 0..MaxPage, limit : 0..MaxLimit]
    /\ gpc \in {"idle", "request", "done"}

\* NewSchedulerService: running := false, inBatch := false, pendingStop nil,
\* the loop is at its select, no call is in progress.
NewSchedulerService ==
    /\ lpc = "select"
    /\ msg = NoMsg
    /\ running = FALSE
    /\ inBatch = FALSE
    /\ pendingStop = NoChan
    /\ tick = NoTick
    /\ active = 0
    /\ lastBatch = "none"
    /\ pc = [c \in Callers |-> "idle"]
    /\ op = [c \in Callers |-> "none"]
    /\ ch = [c \in Callers |-> NoChan]
    /\ result = [c \in Callers |-> "none"]
    /\ mid = [c \in Callers |-> "no"]
    /\ hist = [c \in Callers |-> "none"]
    /\ lastCmd = 0
    /\ sendq = <<>>
    /\ arrived = <<>>
    /\ prevRunning = FALSE

\* default.go:89-91: if maxWorkers <= 0 { maxWorkers = 4 }
MaxWorkersOrDefault(mw) == IF mw <= 0 THEN DefaultMaxWorkers ELSE mw

\* NewMessageService(..., maxWorkers, ...); no ProcessBatch call is under way.
NewMessageService(mw) ==
    /\ maxWorkers = MaxWorkersOrDefault(mw)
    /\ bpc = "idle"
    /\ messages = <<>>
    /\ workerCount = 0
    /\ widx = <<>>
    /\ wpc = <<>>
    /\ wexp = <<>>
    /\ rows = <<>>
    /\ cache = {}
    /\ wexit = {}
    /\ calls = <<>>
    /\ cancelled = FALSE
    /\ fetchErr = FALSE
    /\ errs = {}
    /\ ret = "none"

\* The messages table: every row as Save wrote it (NewMessage: StatusPending),
\* no statement executing.
TableInit ==
    /\ table = [i \in Rows |-> StatusPending]
    /\ rowLock = [i \in Rows |-> NoFetcher]
    /\ spc = [f \in Fetchers |-> "idle"]
    /\ models = [f \in Fetchers |-> {}]
    /\ fetched = [f \in Fetchers |-> {}]
    /\ sent = [i \in Rows |-> 0]
    /\ passed = [f \in Fetchers |-> {}]

\* config.go:114-124: the default when the variable is empty or not a number
getInt(v, def) == IF v.kind = "num" THEN v.n ELSE def

\* config.go:126-136: the default when the variable is empty or not a duration
getDuration(v, def) == IF v.kind = "num" THEN v.n ELSE def

\* config.go:86-92
ConfigOf(e) ==
    [k \in Settings |->
        IF k \in {"MESSAGE_BATCH_SIZE", "MESSAGE_MAX_WORKERS"}
        THEN getInt(e[k], EnvDefault[k])
        ELSE getDuration(e[k], EnvDefault[k])]

\* scheduler.go:69-71: if interval <= 0 { interval = DefaultInterval }
IntervalOrDefault(d) == IF d <= 0 THEN DefaultInterval ELSE d

\* scheduler.go:72-74: if batchTimeout <= 0 { batchTimeout = DefaultBatchTimeout }
BatchTimeoutOrDefault(d) == IF d <= 0 THEN DefaultBatchTimeout ELSE d

\* default.go:86-88: if batchSize <= 0 { batchSize = 100 }
BatchSizeOrDefault(n) == IF n <= 0 THEN DefaultBatchSize ELSE n

\* default.go:92-94: if perMessageTimeout <= 0 { perMessageTimeout = 5s }
PerMessageTimeoutOrDefault(d) == IF d <= 0 THEN DefaultPerMessageTimeout ELSE d

\* The fields NewMessageService sets from the configuration c.
MessageServiceOf(c, u) ==
    [u EXCEPT !["MESSAGE_BATCH_SIZE"] = BatchSizeOrDefault(c["MESSAGE_BATCH_SIZE"]),
              !["MESSAGE_MAX_WORKERS"] = MaxWorkersOrDefault(c["MESSAGE_MAX_WORKERS"]),
              !["MESSAGE_PER_MESSAGE_TIMEOUT"] =
                  PerMessageTimeoutOrDefault(c["MESSAGE_PER_MESSAGE_TIMEOUT"])]

\* The fields NewSchedulerService sets from the configuration c.
SchedulerServiceOf(c, u) ==
    [u EXCEPT !["SCHEDULER_INTERVAL"] = IntervalOrDefault(c["SCHEDULER_INTERVAL"]),
              !["SCHEDULER_BATCH_TIMEOUT"] =
                  BatchTimeoutOrDefault(c["SCHEDULER_BATCH_TIMEOUT"])]

\* No field read or set yet.
NoConfig == [k \in Settings |-> 0]

\* A process about to start under some environment.
ConfigInit ==
    /\ env \in [Settings -> EnvValues]
    /\ cfg = NoConfig
    /\ used = NoConfig
    /\ cpc = "env"

\* A process that has started with none of the variables set.
ConfigDone ==
    /\ env = [k \in Settings |-> Unset]
    /\ cfg = ConfigOf(env)
    /\ used = SchedulerServiceOf(cfg, MessageServiceOf(cfg, NoConfig))
    /\ cpc = "done"

\* No listing request is being served.
NoRequest ==
    /\ query = [page |-> Unset, limit |-> Unset]
    /\ listed = [page |-> 0, limit |-> 0]
    /\ gpc = "idle"

\* A GET /messages/sent request with any page and limit has arrived.
RequestInit ==
    /\ query \in [page : PageValues, limit : LimitValues]
    /\ listed = [page |-> 0, limit |-> 0]
    /\ gpc = "request"

\* The scheduler with a message service of the default configuration.
Init ==
    NewSchedulerService /\ NewMessageService(0) /\ TableInit /\ ConfigDone /\ NoRequest

\* The message service with any configured maxWorkers.
PoolInit ==
    /\ NewSchedulerService
    /\ \E mw \in 0..MaxWorkersConfig : NewMessageService(mw)
    /\ TableInit
    /\ ConfigDone
    /\ NoRequest

\* The start of a process: main under any environment.
ConfigSpecInit ==
    /\ NewSchedulerService /\ NewMessageService(0) /\ TableInit /\ ConfigInit
    /\ NoRequest

\* The server with a listing request to serve.
ListSpecInit ==
    /\ NewSchedulerService /\ NewMessageService(0) /\ TableInit /\ ConfigDone
    /\ RequestInit

----------------------------------------------------------------------------
\* Callers: Start(), Stop(), IsRunning()

\* The channels some goroutine still refers to.
InUse ==
    {ch[c] : c \in Callers} \cup {msg.resp, pendingStop}

\* resp := make(chan bool): a channel nobody refers to.
NewChan == CHOOSE k \in Chans : k \notin InUse

\* Faulty variant of Enqueue: the newcomer overtakes the waiting senders.
EnqueueFront(q, c) == <<c>> \o q

\* A goroutine blocks in its send on s.ctrl: it joins the channel's queue of
\* waiting senders at the end.
Enqueue(q, c) == Append(q, c)

\* c leaves the queue: its send was received or its select took the timeout.
Dequeue(q, c) == SelectSeq(q, LAMBDA x : x # c)

\* What an IsRunning() call of c follows: c's previous call, when that was a
\* Start() or Stop() that returned nil.
HistOf(c, o) ==
    IF o # opStatus \/ result[c] # "nil" THEN "none"
    ELSE IF op[c] = opStart THEN "start"
    ELSE IF op[c] = opStop THEN (IF mid[c] = "no" THEN "stop" ELSE "stopMid")
    ELSE "none"

\* The first lines of Start / Stop / IsRunning: make the reply channel and the
\* message, and block in the send on s.ctrl.
Call(c, o) ==
    /\ pc[c] = "idle"
    /\ pc' = [pc EXCEPT ![c] = "send"]
    /\ op' = [op EXCEPT ![c] = o]
    /\ ch' = [ch EXCEPT ![c] = NewChan]
    /\ result' = [result EXCEPT ![c] = "none"]
    /\ mid' = [mid EXCEPT ![c] = IF o = opStop /\ active > 0 THEN "open" ELSE "no"]
    /\ hist' = [hist EXCEPT ![c] = HistOf(c, o)]
    /\ sendq' = Enqueue(sendq, c)
    /\ arrived' = Append(arrived, c)
    /\ UNCHANGED <<loopVars, tick, batchVars, lastCmd, nonSchedulerVars>>

\* A call returns v to its caller.
Return(c, v) ==
    /\ pc' = [pc EXCEPT ![c] = "idle"]
    /\ ch' = [ch EXCEPT ![c] = NoChan]
    /\ result' = [result EXCEPT ![c] = v]
    /\ hist' = [hist EXCEPT ![c] = "none"]
    /\ sendq' = Dequeue(sendq, c)
    /\ arrived' = Dequeue(arrived, c)
    /\ UNCHANGED <<op, mid>>

\* Faulty variant of SendTimeout: the first select has no time.After case.
SendNoTimeout(c) ==
    /\ FALSE
    /\ UNCHANGED vars

\* Faulty variant of SendTimeout: s.ctrl is buffered, so the message of the
\* call that gave up stays in the channel.
SendTimeoutQueued(c) ==
    /\ pc[c] = "send"
    /\ op[c] \in {opStart, opStop}
    /\ pc' = [pc EXCEPT ![c] = "idle"]
    /\ ch' = [ch EXCEPT ![c] = NoChan]
    /\ result' = [result EXCEPT ![c] = "errSend"]
    /\ hist' = [hist EXCEPT ![c] = "none"]
    /\ UNCHANGED <<op, mid, sendq, arrived>>
    /\ UNCHANGED <<loopVars, tick, batchVars, lastCmd, nonSchedulerVars>>

\* case <-time.After(controlTimeout) of the first select of Start and Stop:
\* "control loop not responding". IsRunning has no such case.
SendTimeout(c) ==
    /\ pc[c] = "send"
    /\ op[c] \in {opStart, opStop}
    /\ Return(c, "errSend")
    /\ UNCHANGED <<loopVars, tick, batchVars, lastCmd, nonSchedulerVars>>

\* case <-time.After(controlTimeout) of the second select of Start and Stop:
\* "acknowledgement timeout". IsRunning has no such case.
AckTimeout(c) ==
    /\ pc[c] = "wait"
    /\ op[c] \in {opStart, opStop}
    /\ Return(c, "errAck")
    /\ UNCHANGED <<loopVars, tick, batchVars, lastCmd, nonSchedulerVars>>

----------------------------------------------------------------------------
\* The loop goroutine

\* Faulty variant of RunningAfterStart: Start toggles running.
RunningAfterStartToggle(r) == ~r

\* scheduler.go:173: running = true
RunningAfterStart(r) == TRUE

\* Faulty variant of StopAlreadyIdle: || for &&.
StopAlreadyIdleOr(r, ib) == ~r \/ ~ib

\* scheduler.go:179: if !running && !inBatch  ("already idle")
StopAlreadyIdle(r, ib) == ~r /\ ~ib

\* Faulty variant of StopDefers: the test of inBatch is inverted.
StopDefersInverted(ib) == ~ib

\* scheduler.go:190: if inBatch  (the reply is deferred until the batch completes)
StopDefers(ib) == ib

\* Faulty variant of TickIgnored: running is not tested.
TickIgnoredOnlyInBatch(r, ib) == ib

\* scheduler.go:205: if !running || inBatch  (the tick is ignored)
TickIgnored(r, ib) == ~r \/ ib

\* Faulty variant of StatusValue: the status reply does not read running.
StatusValueConst(r) == TRUE

\* scheduler.go:199: msg.resp <- running
StatusValue(r) == r

\* The channel the loop's blocked send is on: msg.resp (lines 174, 181, 195,
\* 199) or pendingStop (line 230).
SendingOn == IF lpc = "ackStop" THEN pendingStop ELSE msg.resp

\* case msg := <-s.ctrl (line 166), together with the caller's send
\* s.ctrl <- msg (lines 100, 125, 145), and the switch on msg.op up to the
\* send of the reply, where the loop blocks.
LoopRecv(c) ==
    /\ lpc = "select"
    /\ pc[c] = "send"
    /\ sendq # <<>>
    /\ c = Head(sendq)
    /\ pc' = [pc EXCEPT ![c] = "wait"]
    /\ sendq' = Tail(sendq)
    /\ arrived' = Dequeue(arrived, c)
    /\ prevRunning' = running
    /\ lastCmd' = IF op[c] \in {opStart, opStop} THEN c ELSE lastCmd
    /\ CASE op[c] = opStart ->
              /\ running' = RunningAfterStart(running)
              /\ msg' = [op |-> opStart, resp |-> ch[c], val |-> TRUE]
              /\ lpc' = "reply"
              /\ UNCHANGED <<inBatch, pendingStop>>
         [] op[c] = opStop /\ StopAlreadyIdle(running, inBatch) ->
              /\ msg' = [op |-> opStop, resp |-> ch[c], val |-> TRUE]
              /\ lpc' = "reply"
              /\ UNCHANGED <<running, inBatch, pendingStop>>
         [] op[c] = opStop /\ ~StopAlreadyIdle(running, inBatch) ->
              /\ running' = FALSE
              /\ IF StopDefers(inBatch)
                 THEN /\ pendingStop' = ch[c]
                      /\ msg' = NoMsg
                      /\ lpc' = "select"
                 ELSE /\ msg' = [op |-> opStop, resp |-> ch[c], val |-> TRUE]
                      /\ lpc' = "reply"
                      /\ UNCHANGED pendingStop
              /\ UNCHANGED inBatch
         [] op[c] = opStatus ->
              /\ msg' = [op |-> opStatus, resp |-> ch[c], val |-> StatusValue(running)]
              /\ lpc' = "reply"
              /\ UNCHANGED <<running, inBatch, pendingStop>>
    /\ UNCHANGED <<tick, batchVars, op, ch, result, mid, hist, nonSchedulerVars>>

\* What the caller's call returns when it receives v on its reply channel:
\* Start and Stop return nil (lines 108-109, 133-134), IsRunning returns v
\* (line 146).
Received(o, v) ==
    IF o = opStatus THEN (IF v THEN "true" ELSE "false") ELSE "nil"

\* The loop's send on a reply channel (msg.resp <- ..., pendingStop <- true)
\* together with the receive <-resp of the caller that made the channel.
\* After pendingStop <- true the loop clears pendingStop (line 231).
LoopReply(c) ==
    /\ lpc \in {"reply", "ackStop"}
    /\ pc[c] = "wait"
    /\ ch[c] = SendingOn
    /\ Return(c, Received(op[c], IF lpc = "ackStop" THEN TRUE ELSE msg.val))
    /\ pendingStop' = IF lpc = "ackStop" THEN NoChan ELSE pendingStop
    /\ msg' = NoMsg
    /\ lpc' = "select"
    /\ prevRunning' = FALSE
    /\ UNCHANGED <<running, inBatch, tick, batchVars, lastCmd, nonSchedulerVars>>

\* Faulty variant of LoopTick: the batch is started without waiting for it
\* (go ProcessBatch) and without marking inBatch.
LoopTickAsync ==
    /\ lpc = "select"
    /\ tick.present
    /\ tick' = NoTick
    /\ IF TickIgnored(running, inBatch)
       THEN UNCHANGED batchVars
       ELSE /\ active' = active + 1
            /\ lastBatch' = "none"
    /\ UNCHANGED <<lpc, inBatch, msg, running, pendingStop, prevRunning, callerVars, lastCmd,
                   nonSchedulerVars>>

\* Faulty variant of LoopTick: a tick that comes while the scheduler is
\* stopped arms it.
LoopTickArms ==
    /\ lpc = "select"
    /\ tick.present
    /\ tick' = NoTick
    /\ IF TickIgnored(running, inBatch)
       THEN /\ running' = TRUE
            /\ UNCHANGED <<lpc, inBatch, batchVars>>
       ELSE /\ inBatch' = TRUE
            /\ lpc' = "call"
            /\ active' = active + 1
            /\ lastBatch' = "none"
            /\ UNCHANGED running
    /\ UNCHANGED <<msg, pendingStop, prevRunning, callerVars, lastCmd, nonSchedulerVars>>

\* case <-ticker.C (line 202): the tick is ignored (line 205-207), or inBatch
\* is set and ProcessBatch is called (lines 209-216); the loop goroutine is
\* inside that call until it returns.
LoopTick ==
    /\ lpc = "select"
    /\ tick.present
    /\ tick' = NoTick
    /\ IF TickIgnored(running, inBatch)
       THEN UNCHANGED <<lpc, inBatch, batchVars>>
       ELSE /\ inBatch' = TRUE
            /\ lpc' = "call"
            /\ active' = active + 1
            /\ lastBatch' = "none"
    /\ UNCHANGED <<msg, running, pendingStop, prevRunning, callerVars, lastCmd, nonSchedulerVars>>

\* Faulty variant of BatchReturn: a failed batch stops the scheduler.
BatchReturnStopsOnError(e) ==
    /\ lpc = "call"
    /\ active' = active - 1
    /\ lastBatch' = e
    /\ inBatch' = FALSE
    /\ running' = IF e = "err" THEN FALSE ELSE running
    /\ lpc' = IF pendingStop # NoChan THEN "ackStop" ELSE "select"
    /\ mid' = [c \in Callers |-> IF mid[c] = "open" THEN "closed" ELSE mid[c]]
    /\ UNCHANGED <<msg, pendingStop, prevRunning, tick, pc, op, ch, result, hist, lastCmd,
                   sendq, arrived, nonSchedulerVars>>

\* ProcessBatch returns e (nil or an error) and the loop goes on (lines
\* 217-233): inBatch = false, and a held pendingStop is sent on.
BatchReturn(e) ==
    /\ lpc = "call"
    /\ active' = active - 1
    /\ lastBatch' = e
    /\ inBatch' = FALSE
    /\ lpc' = IF pendingStop # NoChan THEN "ackStop" ELSE "select"
    /\ mid' = [c \in Callers |-> IF mid[c] = "open" THEN "closed" ELSE mid[c]]
    /\ UNCHANGED <<msg, running, pendingStop, prevRunning, tick, pc, op, ch, result, hist,
                   lastCmd, sendq, arrived, nonSchedulerVars>>

\* The ticker (time.NewTicker, line 152) fires: the tick goes into the one
\* slot of ticker.C, or is dropped when the slot is full.
TickerFire ==
    /\ tick' = IF tick.present THEN tick
               ELSE [present |-> TRUE, running |-> running, batch |-> active > 0]
    /\ UNCHANGED <<loopVars, batchVars, callerVars, lastCmd, nonSchedulerVars>>

----------------------------------------------------------------------------
\* The message service: ProcessBatch (default.go:113-188) and the worker
\* goroutines it starts.  processMessage (default.go:201-240) is one step of
\* its worker: it touches only its own message.

\* len(messages)
NumMessages == Cardinality(DOMAIN messages)

\* The indices of a slice of n elements.
Indices(n) == {i \in 0..n : i < n}

\* Faulty variant of WorkerCount: one worker per message, maxWorkers ignored.
WorkerCountPerMessage(n, mw) == IF n <= 0 THEN 1 ELSE n

\* default.go:136-142: workerCount := len(messages), capped by maxWorkers,
\* and at least 1.
WorkerCount(n, mw) ==
    LET capped == IF n > mw THEN mw ELSE n
    IN  IF capped <= 0 THEN 1 ELSE capped

\* Faulty variant of StartIndex: the goroutine starts at its workerID.
StartIndexWorkerID(w) == w + 1

\* default.go:155, 180: go func(workerID, start int) {...}(w+1, w): the w-th
\* worker goroutine starts at index w.
StartIndex(w) == w

\* default.go:158: for i := start; i < len(messages); i += workerCount: the
\* indices the loop visits from i on, among n messages.
RECURSIVE Stride(_, _, _)
Stride(i, wc, n) == IF i < n THEN {i} \cup Stride(i + wc, wc, n) ELSE {}

\* The fields of a message as GetPending returns it.
PendingFields == [status |-> StatusPending, id |-> "", raw |-> ""]

\* default.go:169: msgCtx, cancel := context.WithTimeout(ctx, perMessageTimeout):
\* msgCtx is done when its own timer has fired or the parent ctx is done.
MsgCtxDone(w) == wexp[w] \/ cancelled

\* cache.Prefix.Key: fmt.Sprintf("%s:%s", p, id)
Key(p, id) == p \o ":" \o id

\* Faulty variant of MarkFailed: the raw response is dropped.
MarkFailedNoRaw(m, raw) == [m EXCEPT !.status = StatusFailed]

\* Message.MarkFailed: Status = StatusFailed, RawResponse = raw.
MarkFailed(m, raw) == [m EXCEPT !.status = StatusFailed, !.raw = raw]

\* Faulty variant of MarkSent: the identifier is not recorded.
MarkSentNoID(m, id, raw) == [m EXCEPT !.status = StatusSuccess, !.raw = raw]

\* Message.MarkSent: Status = StatusSuccess, MessageID = msgID, RawResponse = raw.
MarkSent(m, id, raw) == [m EXCEPT !.status = StatusSuccess, !.id = id, !.raw = raw]

\* Repository.UpdateStatus: the row takes the message's status, message_id
\* and raw_response, whatever it held.
UpdatedRow(m) == [status |-> m.status, id |-> m.id, raw |-> m.raw]

\* What WebhookClient.Send can return to worker w: (externalID, rawResp, err).
\* An error comes with the raw response when one was read (lines 87-98) and
\* without it otherwise (lines 56-84); the request fails with the context's
\* error once msgCtx is done (lines 71-76).
SendResults(w) ==
    { [end |-> "ok", id |-> x, raw |-> RawResponse] : x \in ExternalIDs }
    \cup { [end |-> "http", id |-> "", raw |-> RawResponse],
           [end |-> "net", id |-> "", raw |-> ""] }
    \cup (IF MsgCtxDone(w)
          THEN { [end |-> IF wexp[w] THEN "timeout" ELSE "cancel", id |-> "", raw |-> ""] }
          ELSE {})

\* Every (externalID, rawResp, err) a Send call may return.
SendResultSpace == [end : SendEnds, id : ExternalIDs \cup {""}, raw : {RawResponse, ""}]

\* Faulty variant of EmptyBatch: the early return is missing.
EmptyBatchNever(n) == FALSE

\* default.go:125: if len(messages) == 0
EmptyBatch(n) == n = 0

\* The scheduler (or another caller) calls ProcessBatch(ctx).
ProcessBatch ==
    /\ bpc = "idle"
    /\ bpc' = "fetch"
    /\ UNCHANGED <<maxWorkers, messages, workerCount, widx, wpc, wexp, wexit, calls,
                   cancelled, fetchErr, errs, ret, rows, cache>>
    /\ UNCHANGED nonPoolVars

\* default.go:119-122: GetPending fails and ProcessBatch returns the error.
GetPendingFails ==
    /\ bpc = "fetch"
    /\ fetchErr' = TRUE
    /\ ret' = "err"
    /\ bpc' = "done"
    /\ UNCHANGED <<maxWorkers, messages, workerCount, widx, wpc, wexp, wexit, calls,
                   cancelled, errs, rows, cache>>
    /\ UNCHANGED nonPoolVars

\* default.go:119-181: GetPending returns n messages; with none ProcessBatch
\* returns nil (lines 125-128), otherwise it sets workerCount and starts the
\* worker goroutines (lines 136-181).
GetPending(n) ==
    /\ bpc = "fetch"
    /\ messages' = [i \in Indices(n) |-> [status |-> StatusPending, id |-> "",
                                          raw |-> "", why |-> "none"]]
    /\ rows' = [i \in Indices(n) |-> PendingFields]
    /\ calls' = [i \in Indices(n) |-> 0]
    /\ IF EmptyBatch(n)
       THEN /\ ret' = "nil"
            /\ bpc' = "done"
            /\ UNCHANGED <<workerCount, widx, wpc, wexp>>
       ELSE /\ workerCount' = WorkerCount(n, maxWorkers)
            /\ widx' = [w \in Indices(WorkerCount(n, maxWorkers)) |-> StartIndex(w)]
            /\ wpc' = [w \in Indices(WorkerCount(n, maxWorkers)) |-> "loop"]
            /\ wexp' = [w \in Indices(WorkerCount(n, maxWorkers)) |-> FALSE]
            /\ bpc' = "workers"
            /\ UNCHANGED ret
    /\ UNCHANGED <<maxWorkers, wexit, cancelled, fetchErr, errs, cache>>
    /\ UNCHANGED nonPoolVars

\* Faulty variant of WorkerCheck: the worker does not look at ctx.Err().
WorkerCheckBlind(w) ==
    /\ bpc = "workers"
    /\ w \in DOMAIN widx
    /\ w \notin wexit
    /\ wpc[w] = "loop"
    /\ widx[w] < NumMessages
    /\ wpc' = [wpc EXCEPT ![w] = "checked"]
    /\ UNCHANGED <<maxWorkers, bpc, messages, workerCount, widx, wexp, wexit, calls,
                   cancelled, fetchErr, errs, ret, rows, cache>>
    /\ UNCHANGED nonPoolVars

\* default.go:158-166: worker w has an index left (i < len(messages)) and
\* finds ctx.Err() == nil: it goes on to messages[i].
WorkerCheck(w) ==
    /\ bpc = "workers"
    /\ w \in DOMAIN widx
    /\ w \notin wexit
    /\ wpc[w] = "loop"
    /\ widx[w] < NumMessages
    /\ ~cancelled
    /\ wpc' = [wpc EXCEPT ![w] = "checked"]
    /\ UNCHANGED <<maxWorkers, bpc, messages, workerCount, widx, wexp, wexit, calls,
                   cancelled, fetchErr, errs, ret, rows, cache>>
    /\ UNCHANGED nonPoolVars

\* Faulty variant of WorkerExit: a worker that finds ctx done marks the rest
\* of its messages failed in the repository before it returns.
WorkerExitFailsRest(w) ==
    /\ bpc = "workers"
    /\ w \in DOMAIN widx
    /\ w \notin wexit
    /\ wpc[w] = "loop"
    /\ widx[w] >= NumMessages \/ cancelled
    /\ wexit' = wexit \cup {w}
    /\ rows' = [i \in DOMAIN rows |->
                   IF i \in Stride(widx[w], workerCount, NumMessages)
                   THEN [rows[i] EXCEPT !.status = StatusFailed]
                   ELSE rows[i]]
    /\ UNCHANGED <<maxWorkers, bpc, messages, workerCount, widx, wpc, wexp, calls,
                   cancelled, fetchErr, errs, ret, cache>>
    /\ UNCHANGED nonPoolVars

\* Faulty variant of WorkerExit: the worker returns only at the end of its
\* loop, not when it finds ctx done.
WorkerExitAtEndOnly(w) ==
    /\ bpc = "workers"
    /\ w \in DOMAIN widx
    /\ w \notin wexit
    /\ wpc[w] = "loop"
    /\ widx[w] >= NumMessages
    /\ wexit' = wexit \cup {w}
    /\ UNCHANGED <<maxWorkers, bpc, messages, workerCount, widx, wpc, wexp, calls,
                   cancelled, fetchErr, errs, ret, rows, cache>>
    /\ UNCHANGED nonPoolVars

\* default.go:158, 161-164: worker w returns: its loop is over, or ctx.Err()
\* is not nil.
WorkerExit(w) ==
    /\ bpc = "workers"
    /\ w \in DOMAIN widx
    /\ w \notin wexit
    /\ wpc[w] = "loop"
    /\ widx[w] >= NumMessages \/ cancelled
    /\ wexit' = wexit \cup {w}
    /\ UNCHANGED <<maxWorkers, bpc, messages, workerCount, widx, wpc, wexp, calls,
                   cancelled, fetchErr, errs, ret, rows, cache>>
    /\ UNCHANGED nonPoolVars

\* default.go:169-172, 201-205: worker w makes msgCtx, calls processMessage,
\* which calls smsClient.Send(msgCtx, ...): the transport call is in flight.
SendBegin(w) ==
    /\ bpc = "workers"
    /\ w \in DOMAIN widx
    /\ wpc[w] = "checked"
    /\ wpc' = [wpc EXCEPT ![w] = "send"]
    /\ wexp' = [wexp EXCEPT ![w] = FALSE]
    /\ calls' = [calls EXCEPT ![widx[w]] = @ + 1]
    /\ UNCHANGED <<maxWorkers, bpc, messages, workerCount, widx, wexit, cancelled,
                   fetchErr, errs, ret, rows, cache>>
    /\ UNCHANGED nonPoolVars

\* perMessageTimeout elapses while w's Send is in flight: the timer of msgCtx
\* fires.  (When it fires later, during UpdateStatus or cache.Set, that call
\* may fail, as it may at any time.)
ItemTimeout(w) ==
    /\ bpc = "workers"
    /\ w \in DOMAIN widx
    /\ wpc[w] = "send"
    /\ ~wexp[w]
    /\ wexp' = [wexp EXCEPT ![w] = TRUE]
    /\ UNCHANGED <<maxWorkers, bpc, messages, workerCount, widx, wpc, wexit, calls,
                   cancelled, fetchErr, errs, ret, rows, cache>>
    /\ UNCHANGED nonPoolVars

\* default.go:205-220: Send returns r to worker w; on an error the message is
\* marked failed, otherwise sent; then UpdateStatus is called (lines 212, 221)
\* with the same msgCtx, done or not.
SendReturn(w, r) ==
    /\ bpc = "workers"
    /\ w \in DOMAIN widx
    /\ wpc[w] = "send"
    /\ r \in SendResults(w)
    /\ messages' =
          [messages EXCEPT ![widx[w]] =
              [(IF r.end = "ok" THEN MarkSent(@, r.id, r.raw) ELSE MarkFailed(@, r.raw))
                 EXCEPT !.why = r.end]]
    /\ errs' = IF r.end = "ok" THEN errs ELSE errs \cup {"send"}
    /\ wexp' = [wexp EXCEPT ![w] = MsgCtxDone(w)]
    /\ wpc' = [wpc EXCEPT ![w] = "update"]
    /\ UNCHANGED <<maxWorkers, bpc, workerCount, widx, wexit, calls, cancelled,
                   fetchErr, ret, rows, cache>>
    /\ UNCHANGED nonPoolVars

\* Faulty variant of UpdateReturn: a failed update ends the worker's loop.
UpdateReturnStopsWorker(w, ok) ==
    /\ bpc = "workers"
    /\ w \in DOMAIN widx
    /\ wpc[w] = "update"
    /\ ok => ~wexp[w]
    /\ rows' = IF ok THEN [rows EXCEPT ![widx[w]] = UpdatedRow(messages[widx[w]])]
               ELSE rows
    /\ errs' = IF ok THEN errs ELSE errs \cup {IF wexp[w] THEN "ctx" ELSE "update"}
    /\ IF ok /\ messages[widx[w]].status = StatusSuccess /\ messages[widx[w]].id # ""
       THEN /\ wpc' = [wpc EXCEPT ![w] = "cache"]
            /\ UNCHANGED widx
       ELSE /\ wpc' = [wpc EXCEPT ![w] = "loop"]
            /\ widx' = [widx EXCEPT ![w] = IF ok THEN @ + workerCount ELSE NumMessages]
    /\ UNCHANGED <<maxWorkers, bpc, messages, workerCount, wexp, wexit, calls,
                   cancelled, fetchErr, ret, cache>>
    /\ UNCHANGED nonPoolVars

\* Faulty variant of UpdateReturn: cache.Set is called whether or not the
\* SUCCESS status was written.
UpdateReturnCachesAnyway(w, ok) ==
    /\ bpc = "workers"
    /\ w \in DOMAIN widx
    /\ wpc[w] = "update"
    /\ ok => ~wexp[w]
    /\ rows' = IF ok THEN [rows EXCEPT ![widx[w]] = UpdatedRow(messages[widx[w]])]
               ELSE rows
    /\ errs' = IF ok THEN errs ELSE errs \cup {IF wexp[w] THEN "ctx" ELSE "update"}
    /\ IF messages[widx[w]].status = StatusSuccess /\ messages[widx[w]].id # ""
       THEN /\ wpc' = [wpc EXCEPT ![w] = "cache"]
            /\ UNCHANGED widx
       ELSE /\ wpc' = [wpc EXCEPT ![w] = "loop"]
            /\ widx' = [widx EXCEPT ![w] = @ + workerCount]
    /\ UNCHANGED <<maxWorkers, bpc, messages, workerCount, wexp, wexit, calls,
                   cancelled, fetchErr, ret, cache>>
    /\ UNCHANGED nonPoolVars

\* default.go:212-237: UpdateStatus returns to worker w, with the row written
\* (ok) or with an error; it is called with msgCtx, so it fails when msgCtx
\* was done before the call.  After a failed Send, or when the update failed,
\* processMessage returns its error, which the worker logs (lines 172-175), and
\* the worker steps to its next index; otherwise cache.Set is called when
\* there is an external identifier (line 227; s.cache is not nil).
UpdateReturn(w, ok) ==
    /\ bpc = "workers"
    /\ w \in DOMAIN widx
    /\ wpc[w] = "update"
    /\ ok => ~wexp[w]
    /\ rows' = IF ok THEN [rows EXCEPT ![widx[w]] = UpdatedRow(messages[widx[w]])]
               ELSE rows
    /\ errs' = IF ok THEN errs ELSE errs \cup {IF wexp[w] THEN "ctx" ELSE "update"}
    /\ IF ok /\ messages[widx[w]].status = StatusSuccess /\ messages[widx[w]].id # ""
       THEN /\ wpc' = [wpc EXCEPT ![w] = "cache"]
            /\ UNCHANGED widx
       ELSE /\ wpc' = [wpc EXCEPT ![w] = "loop"]
            /\ widx' = [widx EXCEPT ![w] = @ + workerCount]
    /\ UNCHANGED <<maxWorkers, bpc, messages, workerCount, wexp, wexit, calls,
                   cancelled, fetchErr, ret, cache>>
    /\ UNCHANGED nonPoolVars

\* default.go:233-239: cache.Set returns to worker w, with the record written
\* under Key(externalID) for 24 hours (ok) or with an error, which is logged;
\* processMessage returns nil and the worker steps to its next index.
CacheReturn(w, ok) ==
    /\ bpc = "workers"
    /\ w \in DOMAIN widx
    /\ wpc[w] = "cache"
    /\ cache' = IF ok
                THEN cache \cup {[key |-> Key(SentMessages, messages[widx[w]].id),
                                  ttl |-> CacheTTLHours]}
                ELSE cache
    /\ errs' = IF ok THEN errs ELSE errs \cup {"cache"}
    /\ wpc' = [wpc EXCEPT ![w] = "loop"]
    /\ widx' = [widx EXCEPT ![w] = @ + workerCount]
    /\ UNCHANGED <<maxWorkers, bpc, messages, workerCount, wexp, wexit, calls,
                   cancelled, fetchErr, ret, rows>>
    /\ UNCHANGED nonPoolVars

\* The caller's context is cancelled or reaches its deadline
\* (scheduler.go:214: context.WithTimeout(..., s.batchTimeout)).
CtxCancel ==
    /\ bpc \in {"fetch", "workers"}
    /\ ~cancelled
    /\ cancelled' = TRUE
    /\ UNCHANGED <<maxWorkers, bpc, messages, workerCount, widx, wpc, wexp, wexit,
                   calls, fetchErr, errs, ret, rows, cache>>
    /\ UNCHANGED nonPoolVars

\* Faulty variant of WaitReturn: a failure in processMessage is returned.
WaitReturnWorkerError ==
    /\ bpc = "workers"
    /\ wexit = DOMAIN widx
    /\ ret' = IF errs # {} THEN "err" ELSE "nil"
    /\ bpc' = "done"
    /\ UNCHANGED <<maxWorkers, messages, workerCount, widx, wpc, wexp, wexit, calls,
                   cancelled, fetchErr, errs, rows, cache>>
    /\ UNCHANGED nonPoolVars

\* Faulty variant of WaitReturn: ProcessBatch does not wait for its workers.
WaitReturnNoWait ==
    /\ bpc = "workers"
    /\ ret' = "nil"
    /\ bpc' = "done"
    /\ UNCHANGED <<maxWorkers, messages, workerCount, widx, wpc, wexp, wexit, calls,
                   cancelled, fetchErr, errs, rows, cache>>
    /\ UNCHANGED nonPoolVars

\* default.go:184-187: wg.Wait() is over, ProcessBatch returns nil.
WaitReturn ==
    /\ bpc = "workers"
    /\ wexit = DOMAIN widx
    /\ ret' = "nil"
    /\ bpc' = "done"
    /\ UNCHANGED <<maxWorkers, messages, workerCount, widx, wpc, wexp, wexit, calls,
                   cancelled, fetchErr, errs, rows, cache>>
    /\ UNCHANGED nonPoolVars

----------------------------------------------------------------------------
CallerStep(c) ==
    SendTimeout(c) \/ AckTimeout(c) \/ LoopRecv(c) \/ LoopReply(c)

Next ==
    \/ \E c \in Callers : \E o \in Ops : Call(c, o)
    \/ \E c \in Callers : SendTimeout(c)
    \/ \E c \in Callers : AckTimeout(c)
    \/ \E c \in Callers : LoopRecv(c)
    \/ \E c \in Callers : LoopReply(c)
    \/ LoopTick
    \/ \E e \in {"nil", "err"} : BatchReturn(e)
    \/ TickerFire

Spec == Init /\ [][Next]_vars

PoolNext ==
    \/ ProcessBatch
    \/ GetPendingFails
    \/ \E n \in 0..MaxMessages : GetPending(n)
    \/ \E w \in 0..MaxMessages : WorkerCheck(w)
    \/ \E w \in 0..MaxMessages : WorkerExit(w)
    \/ \E w \in 0..MaxMessages : SendBegin(w)
    \/ \E w \in 0..MaxMessages : ItemTimeout(w)
    \/ \E w \in 0..MaxMessages : \E r \in SendResultSpace : SendReturn(w, r)
    \/ \E w \in 0..MaxMessages : \E ok \in BOOLEAN : UpdateReturn(w, ok)
    \/ \E w \in 0..MaxMessages : \E ok \in BOOLEAN : CacheReturn(w, ok)
    \/ CtxCancel
    \/ WaitReturn

\* One ProcessBatch call of a message service.
PoolSpec == PoolInit /\ [][PoolNext]_vars

\* The steps of a ProcessBatch call under way that are a goroutine going on
\* or a call returning: GetPending returns, a worker goes on, Send,
\* UpdateStatus or cache.Set returns, wg.Wait returns.
PoolProgress ==
    \/ GetPendingFails
    \/ \E n \in 0..MaxMessages : GetPending(n)
    \/ \E w \in 0..MaxMessages : WorkerCheck(w)
    \/ \E w \in 0..MaxMessages : WorkerExit(w)
    \/ \E w \in 0..MaxMessages : SendBegin(w)
    \/ \E w \in 0..MaxMessages : \E r \in SendResultSpace : SendReturn(w, r)
    \/ \E w \in 0..MaxMessages : \E ok \in BOOLEAN : UpdateReturn(w, ok)
    \/ \E w \in 0..MaxMessages : \E ok \in BOOLEAN : CacheReturn(w, ok)
    \/ WaitReturn

\* Runnable goroutines are scheduled and the calls to the repository, the
\* provider and the cache return: while some such step is possible, one is
\* taken.  (No step can be repeated, so this is as strong as fairness for
\* each goroutine.)  Nothing says that ctx is ever cancelled or that a timer
\* fires.
PoolFairSpec == PoolSpec /\ WF_vars(PoolProgress)

\* The timers of time.After fire and runnable goroutines are scheduled: a call
\* in progress that can move on does. Nothing says that ProcessBatch returns.
FairSpec == Spec /\ \A c \in Callers : WF_vars(CallerStep(c))

\* Moreover the ticker keeps firing, a select that is ready for a tick again
\* and again takes it (select chooses among its ready cases at random), and
\* every ProcessBatch call returns (at its deadline at the latest).
LiveSpec ==
    /\ FairSpec
    /\ WF_vars(TickerFire)
    /\ SF_vars(LoopTick)
    /\ WF_vars(\E e \in {"nil", "err"} : BatchReturn(e))

----------------------------------------------------------------------------
\* The messages table (repository/gorm/message/repo.go) under several process
\* instances. The connection is opened with SkipDefaultTransaction and the
\* repository begins no transaction, so every statement is a transaction of
\* its own: the row locks it takes are released when it ends.

\* The first n members of S.
FirstN(S, n) == {i \in S : Cardinality({j \in S : j < i}) < n}

\* Faulty variant of Selected: the query has no `status = PENDING` condition.
SelectedAnyStatus(f, limit) ==
    FirstN({i \in Rows : rowLock[i] \in {NoFetcher, f}}, limit)

\* The rows instance f's SELECT ... FOR UPDATE SKIP LOCKED reads: the first
\* `limit` PENDING rows, in created_at order, no other statement has locked.
Selected(f, limit) ==
    FirstN({i \in Rows : /\ table[i] = StatusPending
                         /\ rowLock[i] \in {NoFetcher, f}}, limit)

\* GetPending, the statement: it reads and locks its rows.
SelectForUpdate(f) ==
    /\ spc[f] = "idle"
    /\ models' = [models EXCEPT ![f] = Selected(f, FetchLimit)]
    /\ rowLock' = [i \in Rows |-> IF i \in Selected(f, FetchLimit) THEN f ELSE rowLock[i]]
    /\ spc' = [spc EXCEPT ![f] = "select"]
    /\ passed' = [passed EXCEPT ![f] = {i \in Rows : table[i] = StatusSuccess}]
    /\ UNCHANGED <<table, fetched, sent>>
    /\ UNCHANGED nonStoreVars

\* GetPending returns toDomainMany(models): the statement has ended and with
\* it its transaction, which releases the row locks.
SelectReturns(f) ==
    /\ spc[f] = "select"
    /\ fetched' = [fetched EXCEPT ![f] = models[f]]
    /\ models' = [models EXCEPT ![f] = {}]
    /\ rowLock' = [i \in Rows |-> IF rowLock[i] = f THEN NoFetcher ELSE rowLock[i]]
    /\ spc' = [spc EXCEPT ![f] = "batch"]
    /\ UNCHANGED <<table, sent, passed>>
    /\ UNCHANGED nonStoreVars

\* processMessage of f on row i: Send ended, with the message accepted by the
\* provider (st is SUCCESS) or not, the message was marked st, and UpdateStatus
\* writes the row `Where id = ?`, whatever the row holds by now.  The UPDATE
\* waits while another statement holds the row's lock; ok says whether it
\* succeeded.
UpdateStatus(f, i, st, ok) ==
    /\ spc[f] = "batch"
    /\ i \in fetched[f]
    /\ rowLock[i] = NoFetcher
    /\ st = StatusSuccess => sent[i] < MaxDeliveries
    /\ sent' = IF st = StatusSuccess THEN [sent EXCEPT ![i] = @ + 1] ELSE sent
    /\ table' = IF ok THEN [table EXCEPT ![i] = st] ELSE table
    /\ fetched' = [fetched EXCEPT ![f] = fetched[f] \ {i}]
    /\ UNCHANGED <<rowLock, spc, models, passed>>
    /\ UNCHANGED nonStoreVars

\* ProcessBatch of f returns: every fetched message has been processed.
BatchDone(f) ==
    /\ spc[f] = "batch"
    /\ fetched[f] = {}
    /\ spc' = [spc EXCEPT ![f] = "idle"]
    /\ UNCHANGED <<table, rowLock, models, fetched, sent, passed>>
    /\ UNCHANGED nonStoreVars

StoreNext ==
    \/ \E f \in Fetchers : SelectForUpdate(f)
    \/ \E f \in Fetchers : SelectReturns(f)
    \/ \E f \in Fetchers : \E i \in Rows :
          \E st \in {StatusSuccess, StatusFailed} : \E ok \in BOOLEAN :
              UpdateStatus(f, i, st, ok)
    \/ \E f \in Fetchers : BatchDone(f)

\* Process instances running batch after batch on one messages table.
StoreSpec == Init /\ [][StoreNext]_vars

----------------------------------------------------------------------------
\* The start of a process (main): config.New, NewMessageService,
\* NewSchedulerService.

\* cfg := config.New()
ConfigNew ==
    /\ cpc = "env"
    /\ cfg' = ConfigOf(env)
    /\ cpc' = "cfg"
    /\ UNCHANGED <<env, used>>
    /\ UNCHANGED nonConfigVars

\* service.NewMessageService(..., cfg.Worker.BatchSize, cfg.Worker.MaxWorkers,
\* cfg.Worker.PerMessageTimeout)
MainNewMessageService ==
    /\ cpc = "cfg"
    /\ used' = MessageServiceOf(cfg, used)
    /\ cpc' = "svc"
    /\ UNCHANGED <<env, cfg>>
    /\ UNCHANGED nonConfigVars

\* scheduler.NewSchedulerService(msgSvc, cfg.Scheduler.Interval,
\* cfg.Scheduler.BatchTimeout)
MainNewSchedulerService ==
    /\ cpc = "svc"
    /\ used' = SchedulerServiceOf(cfg, used)
    /\ cpc' = "done"
    /\ UNCHANGED <<env, cfg>>
    /\ UNCHANGED nonConfigVars

ConfigNext ==
    \/ ConfigNew
    \/ MainNewMessageService
    \/ MainNewSchedulerService

ConfigSpec == ConfigSpecInit /\ [][ConfigNext]_vars

----------------------------------------------------------------------------
\* GET /messages/sent (server.go:134-163)

\* server.go:138, 141-143: page is the parameter when it is a number above 0.
PageOf(v) == IF v.kind = "num" /\ v.n > 0 THEN v.n ELSE DefaultPage

\* server.go:139, 145-147: limit is the parameter when it is a number above 0
\* and at most 100.
LimitOf(v) ==
    IF v.kind = "num" /\ v.n > 0 /\ v.n <= MaxLimit THEN v.n ELSE DefaultLimit

\* GetSentMessages reads page and limit and calls h.msgSvc.GetSent with them.
GetSentMessages ==
    /\ gpc = "request"
    /\ listed' = [page |-> PageOf(query.page), limit |-> LimitOf(query.limit)]
    /\ gpc' = "done"
    /\ UNCHANGED query
    /\ UNCHANGED nonListVars

ListNext == GetSentMessages

ListSpec == ListSpecInit /\ [][ListNext]_vars

----------------------------------------------------------------------------
\* Properties

\* c's call is in progress: c is blocked in Start, Stop or IsRunning.
InCall(c) == pc[c] # "idle"

\* c's call returns in this step.
Returns(c) == pc[c] # "idle" /\ pc'[c] = "idle"

\* The loop receives c's command in this step.
Accepts(c) == pc[c] = "send" /\ pc'[c] = "wait"

\* The loop starts a ProcessBatch invocation in this step.
BatchStarts == active' = active + 1

\* The ProcessBatch invocation of the loop returns in this step.
BatchEnds == lpc = "call" /\ lpc' # "call"

\* C1: at most one ProcessBatch invocation started by the loop is active: in
\* every reachable state the number of calls started and not yet returned is
\* 0 or 1.
C1_AtMostOneBatch == active \in {0, 1}

\* C1 witness: a batch is executing while a tick is buffered and a command is
\* being sent.
C1_Witness ==
    /\ active = 1
    /\ tick.present
    /\ \E c \in Callers : pc[c] = "send"

\* C2 (as claimed): a Stop() called while a batch is executing does not
\* return, with nil or with an error, before that batch has returned.
C2_StopWaitsForBatch ==
    [][\A c \in Callers :
          (op[c] = opStop /\ Returns(c)) => mid[c] # "open"]_vars

\* C3 (as claimed): a Stop issued while a batch is executing is applied
\* mid-batch: when that batch finishes with the Stop's caller still in its
\* call, running is already false, the caller's reply channel is held in
\* pendingStop, and the loop goes on to send on it.
C3_StopAppliedMidBatch ==
    [][(/\ BatchEnds
        /\ \E c \in Callers : op[c] = opStop /\ InCall(c) /\ mid[c] = "open")
       => (/\ ~running
           /\ pendingStop # NoChan
           /\ \E c \in Callers : op[c] = opStop /\ ch[c] = pendingStop
           /\ lpc' = "ackStop")]_vars

\* C4 (as claimed): after a batch during which a Stop() was issued has
\* returned, the loop starts no ProcessBatch invocation while that Stop() is
\* still unacknowledged.
C4_NoBatchBeforeStopAck ==
    [][BatchStarts =>
          ~\E c \in Callers : op[c] = opStop /\ InCall(c) /\ mid[c] = "closed"]_vars

C6_IsRunningReturns ==
    \A c \in Callers :
        []((op[c] = opStatus /\ InCall(c) /\ [](lpc = "call")) => <>(~InCall(c)))

\* C7: Start() and Stop() never hang: every such call returns, with nil or
\* with an error, whether or not ProcessBatch ever returns.
C7_StartStopReturn ==
    \A c \in Callers :
        (op[c] \in {opStart, opStop} /\ InCall(c))
        ~> (~InCall(c) /\ result[c] \in {"nil", "errSend", "errAck"})

\* C7 witness: a Stop() issued during a batch has returned "control loop not
\* responding" while that batch is still executing.
C7_Witness ==
    \E c \in Callers :
        /\ op[c] = opStop
        /\ pc[c] = "idle"
        /\ result[c] = "errSend"
        /\ mid[c] = "open"
        /\ lpc = "call"

\* C8 (as claimed): a tick that fired while the scheduler was not running or
\* while a batch was executing never starts a ProcessBatch invocation.
C8_DroppedTickNeverStartsBatch ==
    [][BatchStarts => (tick.running /\ ~tick.batch)]_vars

\* C9 (as claimed): whenever the loop is sending on a reply channel, the
\* caller that made the channel is still waiting to receive on it.
C9_ReplyHasReceiver ==
    lpc \in {"reply", "ackStop"}
    => \E c \in Callers : pc[c] = "wait" /\ ch[c] = SendingOn

\* C10: a ProcessBatch invocation that returns an error leaves running as it
\* was and inBatch false, and if the scheduler is running the next tick the
\* loop takes starts a new batch.
C10_BatchErrorKeepsRunning ==
    [][/\ (BatchEnds /\ lastBatch' = "err") => (running' = running /\ ~inBatch')
       /\ (lastBatch = "err" /\ running /\ lpc = "select" /\ tick.present /\ ~tick'.present)
          => (BatchStarts /\ lpc' = "call")]_vars

\* C10 witness: a batch has failed, the scheduler is still running with
\* inBatch false, and the loop is about to take the next tick.
C10_Witness ==
    lastBatch = "err" /\ lpc = "select" /\ running /\ ~inBatch /\ tick.present

\* C11: Start is idempotent: a Start command the loop applies yields
\* running = true and is acknowledged, touches neither inBatch nor
\* pendingStop, and leaves the scheduler state as it was when running was
\* already true.
C11_StartIdempotent ==
    [][\A c \in Callers :
          (Accepts(c) /\ op[c] = opStart)
          => /\ running'
             /\ lpc' = "reply" /\ msg'.resp = ch[c]
             /\ UNCHANGED <<inBatch, pendingStop>>
             /\ running => UNCHANGED running]_vars

\* C11 witness: the loop is acknowledging a Start it applied while running
\* was already true.
C11_Witness ==
    lpc = "reply" /\ msg.op = opStart /\ prevRunning /\ running

\* C12: a Stop command applied while no batch is executing is answered in the
\* same loop turn and leaves running = false; when the scheduler was already
\* idle it changes no state.
C12_StopAckedAtOnce ==
    [][\A c \in Callers :
          (Accepts(c) /\ op[c] = opStop /\ ~inBatch)
          => /\ ~running'
             /\ lpc' = "reply" /\ msg'.resp = ch[c]
             /\ UNCHANGED <<inBatch, pendingStop>>
             /\ ~running => UNCHANGED running]_vars

\* C12 witness: the loop is acknowledging a Stop that it applied while the
\* scheduler was running and no batch was executing.
C12_Witness ==
    /\ lpc = "reply" /\ msg.op = opStop
    /\ prevRunning /\ ~running /\ ~inBatch /\ active = 0

C16_ReplyExactlyOnce ==
    [][\A c \in Callers :
          (pc[c] = "wait" /\ Returns(c)) => result'[c] \in {"nil", "true", "false"}]_vars

\* C17 (as claimed): once a Start has been acknowledged, a ProcessBatch
\* invocation eventually starts unless a Stop is applied.
C17_StartLeadsToBatch ==
    (running /\ lpc = "select") ~> (active = 1 \/ ~running)

\* C18 (as claimed): every Start() and Stop() call returns and the loop is
\* never stuck: it always comes back to its select.
C18_NoDeadlock ==
    /\ \A c \in Callers : (op[c] \in {opStart, opStop} /\ InCall(c)) ~> ~InCall(c)
    /\ (lpc # "select") ~> (lpc = "select")

\* The workers whose stride from their start index contains index i.
OwnersOf(i) ==
    {w \in DOMAIN widx : i \in Stride(StartIndex(w), workerCount, NumMessages)}

\* C19: the strides of the workers cover every index of messages exactly once:
\* every message belongs to exactly one worker, no worker leaves its stride,
\* processMessage runs at most once on a message, and exactly once on every
\* message when ProcessBatch returns and ctx was not cancelled.
C19_StrideCoversOnce ==
    /\ \A i \in DOMAIN messages : Cardinality(OwnersOf(i)) = 1
    /\ \A w \in DOMAIN widx :
          widx[w] < NumMessages => w \in OwnersOf(widx[w])
    /\ \A i \in DOMAIN messages : calls[i] <= 1
    /\ (bpc = "done" /\ ~cancelled) => \A i \in DOMAIN messages : calls[i] = 1

\* C19 witness: ProcessBatch has returned without cancellation, there were
\* more messages than workers and more than one worker, and processMessage
\* ran once on every message.
C19_Witness ==
    /\ bpc = "done" /\ ~cancelled
    /\ workerCount > 1 /\ NumMessages > workerCount
    /\ \A i \in DOMAIN messages : calls[i] = 1

\* C20: ProcessBatch returns an error exactly when GetPending failed; a
\* failure of Send, UpdateStatus or cache.Set in processMessage never makes
\* it return an error.
C20_ErrorIffFetchFails ==
    /\ bpc = "done" <=> ret # "none"
    /\ bpc = "done" => (ret = "err" <=> fetchErr)
    /\ (bpc = "done" /\ errs # {}) => ret = "nil"

\* C20 witness: ProcessBatch has returned nil although Send, UpdateStatus and
\* cache.Set have each failed for some message.
C20_Witness ==
    bpc = "done" /\ ret = "nil" /\ errs = ErrKinds

\* The workers of the ProcessBatch call, in the state before and after a step.
BothWorkers == DOMAIN wpc \cap DOMAIN wpc'

\* processMessage has run on messages[i] and has returned.
Processed(i) ==
    /\ calls[i] > 0
    /\ \A w \in DOMAIN widx : wpc[w] \in {"send", "update", "cache"} => widx[w] # i

\* C21: when ProcessBatch returns every worker it started has returned, no
\* Send, UpdateStatus or cache.Set call of the batch is in progress, and none
\* starts or takes effect afterwards.
C21_ReturnsAfterWorkers ==
    [][/\ bpc' = "done"
          => /\ wexit' = DOMAIN widx'
             /\ \A w \in DOMAIN wpc' : wpc'[w] = "loop"
       /\ bpc = "done"
          => UNCHANGED <<messages, rows, cache, calls, widx, wpc, wexit>>]_vars

\* C21 witness: ProcessBatch has returned after several workers sent,
\* updated rows and wrote to the cache.
C21_Witness ==
    /\ bpc = "done" /\ workerCount > 1
    /\ cache # {}
    /\ \E i \in DOMAIN rows : rows[i].status = StatusFailed

\* C22 (as claimed): once ctx is done, no Send call is begun.
C22_NoSendAfterExpiry ==
    [][\A w \in BothWorkers :
          (wpc[w] # "send" /\ wpc'[w] = "send") => ~cancelled]_vars

\* C22 (amended): once ctx is done, no worker takes a new item at the check at
\* the head of its loop: from there it can only return.
C22_NoNewItemAfterExpiry ==
    [][\A w \in BothWorkers :
          (cancelled /\ wpc[w] = "loop") => wpc'[w] = "loop"]_vars

\* C22 witness: ctx is done and a worker has returned with items of its
\* stride left unprocessed.
C22_Witness ==
    /\ cancelled
    /\ \E w \in wexit : widx[w] < NumMessages /\ calls[widx[w]] = 0

\* C23 (as claimed): a step that leaves a Send call in flight makes its msgCtx
\* done only when the timer of that msgCtx fires: the expiry of the parent ctx
\* does not cancel it.
C23_InFlightNotInterrupted ==
    [][\A w \in BothWorkers :
          (wpc[w] = "send" /\ wpc'[w] = "send" /\ ~MsgCtxDone(w))
          => (MsgCtxDone(w)' => wexp'[w])]_vars

\* C24: when ProcessBatch has returned, Send failed for every message, no
\* UpdateStatus call failed and neither ctx nor a msgCtx expired, then it
\* returned nil and every message is FAILED with the raw response Send
\* returned, in memory and in its row.
C24_AllFailed ==
    (/\ bpc = "done" /\ ~fetchErr /\ ~cancelled
     /\ {"update", "ctx"} \cap errs = {}
     /\ \A i \in DOMAIN messages : messages[i].why \in {"http", "net"})
    => /\ ret = "nil"
       /\ \A i \in DOMAIN messages :
             /\ messages[i].status = StatusFailed
             /\ messages[i].raw = (IF messages[i].why = "http" THEN RawResponse ELSE "")
             /\ rows[i] = UpdatedRow(messages[i])

\* C24 witness: a batch of several messages has returned, every Send failed
\* with a response, every row is FAILED.
C24_Witness ==
    /\ bpc = "done" /\ ~cancelled /\ NumMessages > 1
    /\ \A i \in DOMAIN messages :
          messages[i].why = "http" /\ rows[i].status = StatusFailed

\* C25: when processMessage has returned for a message whose Send succeeded
\* with identifier X, and its UpdateStatus and cache.Set calls succeeded, the
\* message is SUCCESS with X and the raw response, its row holds the same, and
\* the cache holds a record under "sent_messages:X" for 24 hours; so the cache
\* holds one record per distinct identifier.
C25_SuccessPersistedAndCached ==
    ({"update", "ctx", "cache"} \cap errs = {})
    => /\ \A i \in DOMAIN messages :
             (Processed(i) /\ messages[i].why = "ok")
             => /\ messages[i].status = StatusSuccess
                /\ messages[i].id \in ExternalIDs
                /\ messages[i].raw = RawResponse
                /\ rows[i] = UpdatedRow(messages[i])
                /\ \E x \in ExternalIDs :
                      /\ x = messages[i].id
                      /\ [key |-> IF x = "X" THEN "sent_messages:X" ELSE "sent_messages:Y",
                          ttl |-> 24] \in cache
       /\ Cardinality(cache) =
             Cardinality({messages[i].id :
                             i \in {j \in DOMAIN messages :
                                       Processed(j) /\ messages[j].why = "ok"}})

\* C25 witness: ProcessBatch has returned, two messages were sent with
\* distinct identifiers, both rows are SUCCESS and the cache holds two records.
C25_Witness ==
    /\ bpc = "done" /\ workerCount = 2
    /\ \E i, j \in DOMAIN messages :
          /\ messages[i].id = "X" /\ messages[j].id = "Y"
          /\ rows[i].status = StatusSuccess /\ rows[j].status = StatusSuccess
    /\ Cardinality(cache) = 2

\* C28: a failed UpdateStatus or cache.Set does not make ProcessBatch return
\* an error, makes no message be processed again, and keeps no other message
\* from being processed: when ctx was not cancelled, processMessage has run
\* exactly once on every message.
C28_PersistFailureAbsorbed ==
    /\ \A i \in DOMAIN messages : calls[i] <= 1
    /\ (bpc = "done" /\ {"update", "ctx", "cache"} \cap errs # {})
       => /\ ret = "nil"
          /\ ~cancelled => \A i \in DOMAIN messages : calls[i] = 1 /\ Processed(i)

\* C28 witness: ProcessBatch has returned nil, an UpdateStatus and a cache.Set
\* call failed, and still another message got its cache record.
C28_Witness ==
    /\ bpc = "done" /\ ret = "nil" /\ ~cancelled
    /\ {"update", "cache"} \subseteq errs
    /\ cache # {}

\* C29: when GetPending returns no message, ProcessBatch returns nil in the
\* same step: no worker is started and nothing is sent, updated or cached.
C29_EmptyBatchReturns ==
    [][(bpc = "fetch" /\ bpc' # "fetch" /\ ~fetchErr' /\ DOMAIN messages' = {})
       => /\ bpc' = "done" /\ ret' = "nil"
          /\ DOMAIN widx' = {}
          /\ UNCHANGED <<cache, errs>>]_vars

\* C29 witness: ProcessBatch has returned nil for an empty fetch.
C29_Witness ==
    bpc = "done" /\ ~fetchErr /\ NumMessages = 0 /\ ret = "nil" /\ DOMAIN widx = {}

\* C27: the pending-item fetch claims the rows it returns: a row returned to
\* one fetcher is not returned to another before its status has been
\* updated, so no two fetchers hold the same fetched row.
C27_FetchClaimsRows ==
    \A f \in Fetchers : \A g \in Fetchers :
        f # g => fetched[f] \cap fetched[g] = {}

\* C26: over any sequence of batches, overlapping ones included, the persisted
\* status of a row changes only from Pending, and only to Success or Failed.
C26_StatusOnlyLeavesPending ==
    [][\A i \in Rows :
          table'[i] # table[i] =>
              /\ table[i] = StatusPending
              /\ table'[i] \in {StatusSuccess, StatusFailed}]_vars

\* C30: once the services are constructed, every setting whose variable is
\* unset or invalid (unparseable, zero or negative) has its documented
\* default: tick interval 2 minutes (120 s), batch deadline 30 seconds, batch
\* size 100, max workers 4, per-item timeout 5 seconds.
C30_DefaultsUsed ==
    LET documented(k) ==
            CASE k = "SCHEDULER_INTERVAL" -> 120
              [] k = "SCHEDULER_BATCH_TIMEOUT" -> 30
              [] k = "MESSAGE_BATCH_SIZE" -> 100
              [] k = "MESSAGE_MAX_WORKERS" -> 4
              [] k = "MESSAGE_PER_MESSAGE_TIMEOUT" -> 5
        unsetOrInvalid(v) == v.kind # "num" \/ v.n <= 0
    IN  cpc = "done" =>
            \A k \in Settings :
                unsetOrInvalid(env[k]) => used[k] = documented(k)

\* C31: the listing is called with page = the requested page, or 1 when it is
\* missing, not a number or not positive; and with limit = the requested
\* limit, 20 when it is missing, not a number or not positive, and the maximum
\* 100 when the requested limit is larger than 100.
C31_PageAndLimit ==
    gpc = "done" =>
        /\ listed.page = (IF query.page.kind = "num" /\ query.page.n > 0
                          THEN query.page.n ELSE 1)
        /\ listed.limit = (IF query.limit.kind # "num" \/ query.limit.n <= 0 THEN 20
                           ELSE IF query.limit.n > 100 THEN 100
                           ELSE query.limit.n)

\* C32: when processMessage has returned for a message whose Send failed,
\* whether it failed on its own or because msgCtx was done, and no
\* UpdateStatus call failed in the repository itself, the row of the message
\* is FAILED: it is no longer PENDING.
C32_FailedIsPersisted ==
    "update" \notin errs =>
        \A i \in DOMAIN messages :
            (Processed(i) /\ messages[i].status = StatusFailed)
            => rows[i].status = StatusFailed

C34_NoBatchAfterStop ==
    [][/\ \A c \in Callers :
             (Returns(c) /\ op[c] = opStop /\ result'[c] = "nil")
             => (active' = 0 /\ ~running')
       /\ BatchStarts => running
       /\ (~running /\ running')
             => \E c \in Callers : Accepts(c) /\ op[c] = opStart]_vars

\* C34 witness: batches have run, a Stop() has returned nil and was the last
\* command applied, and a tick is waiting that the loop will ignore.
C34_Witness ==
    \E c \in Callers :
        /\ pc[c] = "idle" /\ op[c] = opStop /\ result[c] = "nil" /\ lastCmd = c
        /\ lastBatch # "none" /\ active = 0 /\ ~running
        /\ tick.present /\ lpc = "select"

\* C35: a Start() or Stop() call that gives up in its send returns "control
\* loop not responding", and that step leaves running, inBatch, pendingStop
\* and the rest of the loop unchanged and takes the call out of the senders
\* of s.ctrl; the loop takes a command only from a caller blocked in its
\* send, and running changes only in a step that takes a command: so the
\* call that failed was not delivered and is never applied later.
C35_SendFailureNotDelivered ==
    [][/\ \A c \in Callers :
             /\ (pc[c] = "send" /\ pc'[c] = "idle")
                => /\ result'[c] = "errSend"
                   /\ UNCHANGED <<running, inBatch, pendingStop, msg, lpc, lastCmd>>
             /\ pc'[c] # "send" => \A k \in 1..Len(sendq') : sendq'[k] # c
             /\ Accepts(c) => (sendq # <<>> /\ Head(sendq) = c)
       /\ (running' # running \/ lastCmd' # lastCmd)
             => \E c \in Callers : Accepts(c)]_vars

\* C35 witness: a Start() has failed with "control loop not responding", the
\* loop is back at its select with nothing to receive, and the scheduler is
\* still not running.
C35_Witness ==
    \E c \in Callers :
        /\ pc[c] = "idle" /\ op[c] = opStart /\ result[c] = "errSend"
        /\ lpc = "select" /\ sendq = <<>> /\ ~running /\ lastCmd # c

\* C40: running changes only in a step in which the loop takes a Start or a
\* Stop command: taking a status query, answering, ignoring a tick, starting
\* a batch and the return of a batch, with nil or with an error, leave it
\* unchanged.
C40_RunningOnlyByCommand ==
    [][running' # running
       => \E c \in Callers : Accepts(c) /\ op[c] \in {opStart, opStop}]_vars

\* C40 witness: the scheduler is running after a batch has failed and an
\* IsRunning() has returned true.
C40_Witness ==
    /\ running /\ lastBatch = "err" /\ lpc = "select"
    /\ \E c \in Callers : pc[c] = "idle" /\ op[c] = opStatus /\ result[c] = "true"

\* C36: cache.Set is called for a message only when its Send succeeded and
\* its row already holds the SUCCESS status with the identifier; the cache
\* changes only in the step in which such a call returns.
C36_CacheAfterPersist ==
    [][/\ \A w \in BothWorkers :
             wpc'[w] = "cache"
             => /\ messages'[widx'[w]].why = "ok"
                /\ rows'[widx'[w]].status = StatusSuccess
                /\ rows'[widx'[w]].id = messages'[widx'[w]].id
       /\ cache' # cache
             => \E w \in BothWorkers :
                   /\ wpc[w] = "cache" /\ wpc'[w] # "cache"
                   /\ rows[widx[w]].status = StatusSuccess]_vars

\* C36 witness: the cache holds the record of one message, and another
\* message that was delivered but whose UpdateStatus failed has none.
C36_Witness ==
    /\ Cardinality(cache) = 1
    /\ \E i, j \in DOMAIN messages :
          /\ Processed(i) /\ rows[i].status = StatusSuccess
          /\ Processed(j) /\ messages[j].status = StatusSuccess
          /\ rows[j].status = StatusPending
          /\ messages[j].id # messages[i].id

\* C37: for N > 0 fetched messages ProcessBatch runs max(1, min(maxWorkers, N))
\* workers, at most maxWorkers Send calls are in flight, and the index of a
\* worker only grows.
C37_BoundedParallelism ==
    [][/\ (bpc' \in {"workers", "done"} /\ DOMAIN messages' # {})
             => LET n == Cardinality(DOMAIN messages')
                    lo == IF maxWorkers' < n THEN maxWorkers' ELSE n
                    wc == IF lo < 1 THEN 1 ELSE lo
                IN  /\ Cardinality(DOMAIN widx') = wc
                    /\ workerCount' = wc
       /\ Cardinality({w \in DOMAIN wpc' : wpc'[w] = "send"}) <= maxWorkers'
       /\ \A w \in BothWorkers :
             /\ widx'[w] >= widx[w]
             /\ (wpc[w] = "loop" /\ wpc'[w] = "checked") => widx'[w] = widx[w]]_vars

\* C37 witness: three messages, maxWorkers = 2: two Send calls are in flight,
\* one of them for the second message of its worker.
C37_Witness ==
    /\ bpc = "workers" /\ NumMessages = 3 /\ maxWorkers = 2
    /\ Cardinality({w \in DOMAIN wpc : wpc[w] = "send"}) = 2
    /\ \E w \in DOMAIN widx : widx[w] = 2

\* C38: a message on which processMessage was never called, as when its
\* worker found ctx done first, is PENDING without identifier or response in
\* memory and in its row.
C38_UnstartedUntouched ==
    \A i \in DOMAIN messages :
        calls[i] = 0
        => /\ rows[i] = PendingFields
           /\ UpdatedRow(messages[i]) = PendingFields
           /\ messages[i].why = "none"

\* C38 witness: ProcessBatch has returned after ctx was cancelled, with one
\* message processed and another never started.
C38_Witness ==
    /\ bpc = "done" /\ cancelled /\ ret = "nil"
    /\ \E i, j \in DOMAIN messages :
          /\ calls[i] = 0 /\ rows[i].status = StatusPending
          /\ calls[j] = 1 /\ rows[j].status # StatusPending

\* C39: a ProcessBatch call that has begun returns, with every worker it
\* started finished.
C39_ProcessBatchTerminates ==
    (bpc = "fetch") ~> (bpc = "done" /\ wexit = DOMAIN widx)

\* C39 witness: ProcessBatch has returned for three messages and two workers,
\* after a context expiry.
C39_Witness ==
    /\ bpc = "done" /\ NumMessages = 3 /\ workerCount = 2
    /\ wexit = DOMAIN widx /\ cancelled /\ "ctx" \in errs

====
